---- MODULE Spec2Model ----
(***************************************************************************)
(* Model of the four maybenot defense generators (FRONT, Pipelined FRONT,  *)
(* RegulaTor, Surakav).  Each behaviour is one run of one of the four      *)
(* programs: Init draws the program and its command-line arguments, the    *)
(* actions are the loop iterations of the generator functions, and `out'   *)
(* collects what main prints.                                              *)
(*                                                                         *)
(* Numbers.  Probabilities and distribution parameters are f64 in the      *)
(* source; here they are exact rationals <<n, d>> (d = 0 is INFINITY).     *)
(* The RegulaTor relay search works on f64 as well; it is modelled in      *)
(* fixed point (see the RegulaTor relay section).  The timeout             *)
(* distributions of the states are not part of the State record: FRONT's  *)
(* need the Rayleigh fit, which is outside what integers can express.      *)
(***************************************************************************)
EXTENDS Integers, Sequences, FiniteSets, TLC

(* ---------------------------------------------------------------------- *)
(* Bounds of the model                                                     *)
(* ---------------------------------------------------------------------- *)
MaxLines == 5
MaxCell == 4
MaxNumStates == 3
MaxPipelines == 3
MaxBudget == 2
UDen == 2^2
MaxUploadQ == 12
MaxInitialRate == 4
MaxDecayLog2 == 2
MaxThreshold == 2
MaxPackets == 2
MaxTail == 5
MaxSendStates == 8

(* ---------------------------------------------------------------------- *)
(* Program constants                                                       *)
(* ---------------------------------------------------------------------- *)
TOR_CELL_SIZE == 512
CUTOFF_LENGTH == 8000

Events == {"NonPaddingSent", "NonPaddingRecv", "PaddingSent", "PaddingRecv",
           "BlockingBegin", "BlockingEnd", "LimitReached"}

(* ---------------------------------------------------------------------- *)
(* Rationals <<n, d>>                                                      *)
(* ---------------------------------------------------------------------- *)
R(n) == <<n, 1>>
INFINITY == <<1, 0>>
RLess(x, y) == x[1] * y[2] < y[1] * x[2]
RLeq(x, y) == x[1] * y[2] <= y[1] * x[2]
REq(x, y) == x[1] * y[2] = y[1] * x[2]
RAdd(x, y) == IF x[2] = y[2] THEN <<x[1] + y[1], x[2]>>
              ELSE <<x[1] * y[2] + y[1] * x[2], x[2] * y[2]>>
RSub(x, y) == IF x[2] = y[2] THEN <<x[1] - y[1], x[2]>>
              ELSE <<x[1] * y[2] - y[1] * x[2], x[2] * y[2]>>
RMul(x, y) == <<x[1] * y[1], x[2] * y[2]>>
RDiv(x, y) == <<x[1] * y[2], x[2] * y[1]>>

(* ---------------------------------------------------------------------- *)
(* HashMap, Dist, State, Machine                                           *)
(* ---------------------------------------------------------------------- *)
EmptyMap == [x \in {} |-> 0]
Insert(m, k, v) == (k :> v) @@ m

Uniform(p1, p2) == [dist |-> "Uniform", param1 |-> p1, param2 |-> p2,
                    start |-> R(0), max |-> R(0)]
NoDist == [dist |-> "None", param1 |-> R(0), param2 |-> R(0),
           start |-> R(0), max |-> R(0)]

\* State::new(transitions, num_states): every flag false, no distribution set
StateNew(transitions, num_states) ==
    [transitions |-> transitions, num_states |-> num_states,
     action_is_block |-> FALSE, bypass |-> FALSE, replace |-> FALSE,
     action |-> NoDist, limit |-> NoDist]

Machine(states, allowed_blocked_microsec) ==
    [allowed_padding_bytes |-> "u64::MAX", max_padding_frac |-> R(0),
     allowed_blocked_microsec |-> allowed_blocked_microsec,
     max_blocking_frac |-> R(0), states |-> states,
     include_small_packets |-> FALSE]

\* machine.serialize(): the wire string of the external engine, kept as a
\* tagged value from which the machine can be read back
serialize(m) == [format |-> "maybenot", body |-> m]

(* ---------------------------------------------------------------------- *)
(* Surakav                                                                 *)
(* ---------------------------------------------------------------------- *)
\* (mutant) the loop breaks one burst late
read_lines_break_late(count) == count > CUTOFF_LENGTH

\* `if count >= CUTOFF_LENGTH { break; }`
read_lines_break(count) == count >= CUTOFF_LENGTH

\* (mutant) count counts every line, the 0 lines too
read_lines_iter_all(file, s) ==
    IF s.stopped \/ s.k > Len(file) THEN s
    ELSE IF read_lines_break(s.count) THEN [s EXCEPT !.stopped = TRUE]
    ELSE [s EXCEPT !.k = @ + 1, !.lines = Append(@, file[s.k]),
                   !.count = @ + 1]

\* one iteration of `for (_, line) in reader.lines().enumerate()`: s.k is
\* the line the reader is at, s.stopped is set by the break; after the break
\* or the last line nothing changes
read_lines_iter(file, s) ==
    IF s.stopped \/ s.k > Len(file) THEN s
    ELSE IF read_lines_break(s.count) THEN [s EXCEPT !.stopped = TRUE]
    ELSE LET val == file[s.k]
         IN [s EXCEPT !.k = @ + 1, !.lines = Append(@, val),
                      !.count = IF val # 0 THEN @ + 1 ELSE @]

RECURSIVE read_lines_run(_, _, _)
\* n iterations of the loop, one after the other: the first half, then the
\* rest from where the first half ended (s.k is at least 1 at all times;
\* the test on h.k makes the first half be evaluated before the second)
read_lines_run(file, s, n) ==
    IF n = 0 THEN s
    ELSE IF n = 1 THEN read_lines_iter(file, s)
    ELSE LET h == read_lines_run(file, s, n \div 2)
         IN IF h.k > 0 THEN read_lines_run(file, h, n - (n \div 2)) ELSE h

\* the loop runs once per line of the file at most
read_lines(file) ==
    LET s == read_lines_run(file, [k |-> 1, lines |-> <<>>, count |-> 0,
                                   stopped |-> FALSE], Len(file))
    IN <<s.lines, s.count>>

surakav_generate_start_state(next_index, num_states) ==
    LET nonpadding_sent == Insert(EmptyMap, next_index, R(1))
        nonpadding_recv == Insert(EmptyMap, next_index, R(1))
        transitions == Insert(Insert(EmptyMap, "NonPaddingSent", nonpadding_sent),
                              "NonPaddingRecv", nonpadding_recv)
    IN StateNew(transitions, num_states)

\* (mutant) the BLOCK state does not block
surakav_generate_block_state_open(next_index, num_states) ==
    LET blocking_begin == Insert(EmptyMap, next_index, R(1))
        transitions == Insert(EmptyMap, "BlockingBegin", blocking_begin)
    IN [StateNew(transitions, num_states) EXCEPT
           !.bypass = TRUE, !.replace = TRUE,
           !.action = Uniform(INFINITY, INFINITY)]

surakav_generate_block_state(next_index, num_states) ==
    LET blocking_begin == Insert(EmptyMap, next_index, R(1))
        transitions == Insert(EmptyMap, "BlockingBegin", blocking_begin)
    IN [StateNew(transitions, num_states) EXCEPT
           !.action_is_block = TRUE, !.bypass = TRUE, !.replace = TRUE,
           !.action = Uniform(INFINITY, INFINITY)]

\* (mutant) the receive state does not block
generate_burst_states_free(num_cells, curr_index, next_index, num_states) ==
    LET limit_reached_send == Insert(EmptyMap, next_index, R(1))
        limit_reached_recv == Insert(EmptyMap, next_index, R(1))
        padding_sent == Insert(EmptyMap, curr_index, R(1))
        nonpadding_recv == Insert(EmptyMap, curr_index, R(1))
        padding_recv == Insert(EmptyMap, curr_index, R(1))
        transitions_send == Insert(Insert(EmptyMap, "LimitReached", limit_reached_send),
                                   "PaddingSent", padding_sent)
        transitions_recv == Insert(Insert(Insert(EmptyMap,
                                   "LimitReached", limit_reached_recv),
                                   "NonPaddingRecv", nonpadding_recv),
                                   "PaddingRecv", padding_recv)
        send_state == [StateNew(transitions_send, num_states) EXCEPT
                          !.bypass = TRUE, !.replace = TRUE,
                          !.action = Uniform(R(TOR_CELL_SIZE), R(TOR_CELL_SIZE)),
                          !.limit = Uniform(R(num_cells), R(num_cells))]
        recv_state == [StateNew(transitions_recv, num_states) EXCEPT
                          !.bypass = TRUE, !.replace = TRUE,
                          !.action = Uniform(INFINITY, INFINITY),
                          !.limit = Uniform(R(num_cells), R(num_cells))]
    IN <<send_state, recv_state>>

\* returns <<send_state, recv_state>>
generate_burst_states(num_cells, curr_index, next_index, num_states) ==
    LET limit_reached_send == Insert(EmptyMap, next_index, R(1))
        limit_reached_recv == Insert(EmptyMap, next_index, R(1))
        padding_sent == Insert(EmptyMap, curr_index, R(1))
        nonpadding_recv == Insert(EmptyMap, curr_index, R(1))
        padding_recv == Insert(EmptyMap, curr_index, R(1))
        transitions_send == Insert(Insert(EmptyMap, "LimitReached", limit_reached_send),
                                   "PaddingSent", padding_sent)
        transitions_recv == Insert(Insert(Insert(EmptyMap,
                                   "LimitReached", limit_reached_recv),
                                   "NonPaddingRecv", nonpadding_recv),
                                   "PaddingRecv", padding_recv)
        send_state == [StateNew(transitions_send, num_states) EXCEPT
                          !.bypass = TRUE, !.replace = TRUE,
                          !.action = Uniform(R(TOR_CELL_SIZE), R(TOR_CELL_SIZE)),
                          !.limit = Uniform(R(num_cells), R(num_cells))]
        recv_state == [StateNew(transitions_recv, num_states) EXCEPT
                          !.action_is_block = TRUE, !.bypass = TRUE, !.replace = TRUE,
                          !.action = Uniform(INFINITY, INFINITY),
                          !.limit = Uniform(R(num_cells), R(num_cells))]
    IN <<send_state, recv_state>>

(* ---------------------------------------------------------------------- *)
(* FRONT                                                                   *)
(* ---------------------------------------------------------------------- *)
\* shared by maybenot_front.rs and pipelined_front.rs (identical bodies)
generate_padding_state(curr_index, next_index, num_states, padding_count) ==
    LET padding_sent == Insert(EmptyMap, curr_index, R(1))
        limit_reached == Insert(EmptyMap, next_index, R(1))
        transitions == Insert(Insert(EmptyMap, "PaddingSent", padding_sent),
                              "LimitReached", limit_reached)
    IN [StateNew(transitions, num_states) EXCEPT
           !.action = Uniform(R(TOR_CELL_SIZE), R(TOR_CELL_SIZE)),
           !.limit = Uniform(R(1), padding_count)]

front_generate_start_state(num_states) ==
    LET nonpadding_sent == Insert(EmptyMap, 1, R(1))
        nonpadding_recv == Insert(EmptyMap, 1, R(1))
        transitions == Insert(Insert(EmptyMap, "NonPaddingSent", nonpadding_sent),
                              "NonPaddingRecv", nonpadding_recv)
    IN StateNew(transitions, num_states)

(* ---------------------------------------------------------------------- *)
(* Pipelined FRONT                                                         *)
(* ---------------------------------------------------------------------- *)
RECURSIVE pipelined_start_targets_each(_, _, _, _, _)
\* (mutant) idx advances by one: every state becomes a START target
pipelined_start_targets_each(m, idx, num_states, num_pipelines, total_states) ==
    IF idx < total_states
    THEN pipelined_start_targets_each(Insert(m, idx, <<1, num_pipelines>>),
                                      idx + 1, num_states, num_pipelines,
                                      total_states)
    ELSE m

RECURSIVE pipelined_start_targets(_, _, _, _, _)
\* the `while idx < total_states` loop of generate_start_state
pipelined_start_targets(m, idx, num_states, num_pipelines, total_states) ==
    IF idx < total_states
    THEN pipelined_start_targets(Insert(m, idx, <<1, num_pipelines>>),
                                 idx + num_states, num_states, num_pipelines,
                                 total_states)
    ELSE m

pipelined_generate_start_state(num_states, num_pipelines, total_states) ==
    LET nonpadding_sent == pipelined_start_targets(EmptyMap, 1, num_states,
                                                   num_pipelines, total_states)
        nonpadding_recv == pipelined_start_targets(EmptyMap, 1, num_states,
                                                   num_pipelines, total_states)
        transitions == Insert(Insert(EmptyMap, "NonPaddingSent", nonpadding_sent),
                              "NonPaddingRecv", nonpadding_recv)
    IN StateNew(transitions, total_states)

(* ---------------------------------------------------------------------- *)
(* RegulaTor client                                                        *)
(* ---------------------------------------------------------------------- *)
\* upload_ratio as usize (truncation) and upload_ratio.fract()
Trunc(x) == x[1] \div x[2]
Fract(x) == <<x[1] % x[2], x[2]>>

generate_client_send_state(num_states) ==
    LET padding_sent == Insert(EmptyMap, 0, R(1))
        transitions == Insert(EmptyMap, "PaddingSent", padding_sent)
    IN [StateNew(transitions, num_states) EXCEPT
           !.bypass = TRUE, !.replace = TRUE,
           !.action = Uniform(R(TOR_CELL_SIZE), R(TOR_CELL_SIZE))]

\* (mutant) the self-loop gets prob_trans instead of 1 - prob_trans
generate_client_count_state_same(curr_index, next_index, num_states, prob_trans) ==
    LET pr0 == Insert(EmptyMap, next_index, prob_trans)
        padding_recv == IF RLess(prob_trans, R(1))
                        THEN Insert(pr0, curr_index, prob_trans)
                        ELSE pr0
        limit_reached == Insert(EmptyMap, next_index, R(1))
        t0 == Insert(Insert(EmptyMap, "PaddingRecv", padding_recv),
                     "NonPaddingRecv", padding_recv)
        transitions == IF RLess(prob_trans, R(1))
                       THEN Insert(t0, "LimitReached", limit_reached)
                       ELSE t0
    IN [StateNew(transitions, num_states) EXCEPT
           !.action_is_block = TRUE, !.bypass = TRUE, !.replace = TRUE,
           !.action = Uniform(INFINITY, INFINITY),
           !.limit = Uniform(R(2), R(2))]

generate_client_count_state(curr_index, next_index, num_states, prob_trans) ==
    LET pr0 == Insert(EmptyMap, next_index, prob_trans)
        padding_recv == IF RLess(prob_trans, R(1))
                        THEN Insert(pr0, curr_index, RSub(R(1), prob_trans))
                        ELSE pr0
        nr0 == Insert(EmptyMap, next_index, prob_trans)
        nonpadding_recv == IF RLess(prob_trans, R(1))
                           THEN Insert(nr0, curr_index, RSub(R(1), prob_trans))
                           ELSE nr0
        limit_reached == Insert(EmptyMap, next_index, R(1))
        t0 == Insert(Insert(EmptyMap, "PaddingRecv", padding_recv),
                     "NonPaddingRecv", nonpadding_recv)
        transitions == IF RLess(prob_trans, R(1))
                       THEN Insert(t0, "LimitReached", limit_reached)
                       ELSE t0
    IN [StateNew(transitions, num_states) EXCEPT
           !.action_is_block = TRUE, !.bypass = TRUE, !.replace = TRUE,
           !.action = Uniform(INFINITY, INFINITY),
           !.limit = Uniform(R(2), R(2))]

(* ---------------------------------------------------------------------- *)
(* RegulaTor relay: f64 arithmetic of the interval search                  *)
(*                                                                         *)
(* Times (a, mid, step, width, t1) and packet counts are fixed point in    *)
(* units of 2^-24, D^t in units of 2^-28, on 32-bit integers.  An f64 is   *)
(* one of                                                                  *)
(*   [k |-> "fix", v |-> n]   the value n / 2^24, below 64 in magnitude    *)
(*   [k |-> "big", v |-> e]   a finite value of magnitude about 2^e, e >= 6*)
(*                            (reached only by the doubling of the search, *)
(*                            where D^mid is below every resolution used)  *)
(*   [k |-> "inf"], [k |-> "nan"]                                          *)
(* decay is 1/2^d, so that D^t = 2^(-d*t) is computed by a table of        *)
(* 2^(-2^-j).                                                              *)
(* ---------------------------------------------------------------------- *)
TFRAC == 2^24
PFRAC == 2^28
FixLimit == 2^30
F64_MAX_EXP == 1024
\* 0.00001 in units of 2^-24, rounded down
Tolerance == 167

Fix(v) == [k |-> "fix", v |-> v]
Big(e) == [k |-> "big", v |-> e]
FInf == [k |-> "inf", v |-> 0]
FNaN == [k |-> "nan", v |-> 0]

\* round(2^28 * 2^(-2^-j)), j = 1..24
Pow2NegTable ==
    <<189812531, 225726413, 246156398, 257054673, 262683438, 265543873,
     266985750, 267709622, 268072293, 268253813, 268344619, 268390034,
     268412744, 268424100, 268429778, 268432617, 268434036, 268434746,
     268435101, 268435279, 268435367, 268435412, 268435434, 268435445>>

\* floor(x * y / 2^28) for 0 <= x, y <= 2^28
MulFix28(x, y) ==
    LET xh == x \div 2^14
        xl == x % 2^14
        yh == y \div 2^14
        yl == y % 2^14
    IN xh * yh + ((xh * yl + xl * yh + ((xl * yl) \div 2^14)) \div 2^14)

\* floor(x * y / 2^24) for 0 <= x, y and a product below 2^31
MulFix24(x, y) ==
    LET x2 == x \div 2^24
        x1 == (x % 2^24) \div 2^12
        x0 == x % 2^12
        y2 == y \div 2^24
        y1 == (y % 2^24) \div 2^12
        y0 == y % 2^12
        lo == (x1 * y0 + x0 * y1 + ((x0 * y0) \div 2^12)) \div 2^12
    IN (x2 * y2) * 2^24 + (x2 * y1 + x1 * y2) * 2^12
       + (x2 * y0 + x1 * y1 + x0 * y2) + lo

Abs(x) == IF x < 0 THEN -x ELSE x
Sign(x) == IF x < 0 THEN -1 ELSE 1
SMulFix24(x, y) == Sign(x) * Sign(y) * MulFix24(Abs(x), Abs(y))

RECURSIVE Pow2NegFrac(_, _, _)
\* p * 2^(-(bits j..24 of ef) / 2^24)
Pow2NegFrac(ef, j, p) ==
    IF j > 24 THEN p
    ELSE Pow2NegFrac(ef, j + 1,
             IF (ef \div 2^(24 - j)) % 2 = 1
             THEN MulFix28(p, Pow2NegTable[j]) ELSE p)

\* decay = 1/2^d
DecayLog2(decay) == CHOOSE d \in 0..30 : 2^d = decay[2]

\* decay.powf(t) in units of 2^-28, t in units of 2^-24 (-1 <= t < 64)
powf(decay, t) ==
    LET d == DecayLog2(decay)
        ti == t \div TFRAC
        tf == t % TFRAC
        ei == d * ti + ((d * tf) \div TFRAC)
        ef == (d * tf) % TFRAC
        p == Pow2NegFrac(ef, 1, PFRAC)
    IN IF ei >= 31 THEN 0
       ELSE IF ei >= 0 THEN p \div 2^ei
       ELSE p * 2^(-ei)

\* initial_rate * decay.powf(t), an f64
calculate_rate(t, initial_rate, decay) ==
    CASE t.k = "fix" ->
           LET p == powf(decay, t.v)
           IN Fix(initial_rate * (p \div 16) + ((initial_rate * (p % 16)) \div 16))
      [] t.k = "big" -> Fix(0)
      [] t.k = "inf" -> Fix(0)
      [] OTHER -> FNaN

\* x + y and x * 2.0 where the search can overflow the fixed range
FAddUp(x, y) ==
    CASE x.k = "fix" /\ y.k = "fix" ->
           IF x.v + y.v >= FixLimit
           THEN Big(IF y.v >= FixLimit THEN 7 ELSE 6)
           ELSE Fix(x.v + y.v)
      [] x.k = "big" -> IF x.v + 1 >= F64_MAX_EXP THEN FInf ELSE Big(x.v + 1)
      [] OTHER -> FInf
FDouble(x) ==
    CASE x.k = "fix" -> IF x.v > FixLimit \div 2 THEN Big(7) ELSE Fix(x.v * 2)
      [] x.k = "big" -> IF x.v + 1 >= F64_MAX_EXP THEN FInf ELSE Big(x.v + 1)
      [] OTHER -> FInf

\* curr_diff.abs() > 0.00001 (false for NaN)
AboveTolerance(curr_diff) == curr_diff.k = "fix" /\ Abs(curr_diff.v) > Tolerance

\* the f64 count (a dyadic rational) in units of 2^-24
CountFix(count) == (count[1] * TFRAC) \div count[2]

\* the locals of calc_interval_width before its loop
calc_interval_width_init(a, count) ==
    [a |-> a, mid |-> a, step |-> Fix(TFRAC \div 2), decreasing |-> FALSE,
     curr_diff |-> Fix(CountFix(count))]

\* one iteration of the while loop of calc_interval_width
calc_interval_width_step(s, count, rate, decay) ==
    LET down == s.curr_diff.v < 0
        mid == IF down THEN Fix(s.mid.v - s.step.v) ELSE FAddUp(s.mid, s.step)
        decreasing == s.decreasing \/ down
        step == IF decreasing THEN Fix(s.step.v \div 2) ELSE FDouble(s.step)
        r == calculate_rate(mid, rate, decay)
        curr_count ==
            CASE mid.k = "fix" -> Fix(SMulFix24(r.v, (mid.v - s.a.v) * 2))
              [] mid.k = "big" -> Fix(0)
              [] OTHER -> FNaN
        curr_diff == IF curr_count.k = "fix"
                     THEN Fix(CountFix(count) - curr_count.v) ELSE FNaN
    IN [s EXCEPT !.mid = mid, !.step = step, !.decreasing = decreasing,
                 !.curr_diff = curr_diff]

\* return (mid - a) * 2.0
calc_interval_width_return(s) ==
    IF s.mid.k = "fix" THEN Fix((s.mid.v - s.a.v) * 2) ELSE FInf

\* the body of both passes after the call: <<t2, rate, stop>>
relay_interval(t1, width, initial_rate, decay) ==
    LET middle == IF width.k = "fix" THEN Fix(t1.v + width.v \div 2) ELSE FInf
        t2 == IF width.k = "fix" THEN Fix(t1.v + width.v) ELSE FInf
        rate == calculate_rate(middle, initial_rate, decay)
        stop == width.k = "inf" \/ rate.v < TFRAC
    IN <<t2, rate, stop>>

(* ---------------------------------------------------------------------- *)
(* RegulaTor relay: states                                                 *)
(* ---------------------------------------------------------------------- *)
\* (mutant) START leaves on padding as well
generate_relay_start_state_padding(num_states) ==
    LET nonpadding_sent == Insert(EmptyMap, 1, R(1))
        transitions == Insert(Insert(EmptyMap, "NonPaddingSent", nonpadding_sent),
                              "PaddingSent", nonpadding_sent)
    IN StateNew(transitions, num_states)

generate_relay_start_state(num_states) ==
    LET nonpadding_sent == Insert(EmptyMap, 1, R(1))
        transitions == Insert(EmptyMap, "NonPaddingSent", nonpadding_sent)
    IN StateNew(transitions, num_states)

generate_relay_block_state(num_states) ==
    LET blocking_begin == Insert(EmptyMap, 2, R(1))
        transitions == Insert(EmptyMap, "BlockingBegin", blocking_begin)
    IN [StateNew(transitions, num_states) EXCEPT
           !.action_is_block = TRUE, !.bypass = TRUE, !.replace = TRUE,
           !.action = Uniform(INFINITY, INFINITY)]

generate_relay_boot_state(curr_index, next_index, num_states) ==
    LET padding_sent == Insert(EmptyMap, curr_index, R(1))
        nonpadding_sent == Insert(EmptyMap, next_index, R(1))
        transitions == Insert(Insert(EmptyMap, "PaddingSent", padding_sent),
                              "NonPaddingSent", nonpadding_sent)
    IN [StateNew(transitions, num_states) EXCEPT
           !.bypass = TRUE, !.replace = TRUE,
           !.action = Uniform(R(TOR_CELL_SIZE), R(TOR_CELL_SIZE))]

\* (mutant) SEND_0 resets to itself as well
generate_relay_send_state_all(curr_index, next_index, num_states, padding_count, threshold, rate) ==
    LET padding_sent == Insert(EmptyMap, curr_index, R(1))
        limit_reached == Insert(EmptyMap, next_index, R(1))
        nonpadding_sent == Insert(EmptyMap, 11,
                               RDiv(R(2), RMul(R(threshold), <<rate.v, TFRAC>>)))
        t0 == Insert(Insert(EmptyMap, "PaddingSent", padding_sent),
                     "LimitReached", limit_reached)
        transitions == IF curr_index > 10
                       THEN Insert(t0, "NonPaddingSent", nonpadding_sent)
                       ELSE t0
    IN [StateNew(transitions, num_states) EXCEPT
           !.bypass = TRUE, !.replace = TRUE,
           !.action = Uniform(R(TOR_CELL_SIZE), R(TOR_CELL_SIZE)),
           !.limit = Uniform(padding_count, padding_count)]

\* rate is the f64 of the build pass, in units of 2^-24
generate_relay_send_state(curr_index, next_index, num_states, padding_count, threshold, rate) ==
    LET padding_sent == Insert(EmptyMap, curr_index, R(1))
        limit_reached == Insert(EmptyMap, next_index, R(1))
        nonpadding_sent == Insert(EmptyMap, 11,
                               RDiv(R(2), RMul(R(threshold), <<rate.v, TFRAC>>)))
        t0 == Insert(Insert(EmptyMap, "PaddingSent", padding_sent),
                     "LimitReached", limit_reached)
        transitions == IF curr_index > 11
                       THEN Insert(t0, "NonPaddingSent", nonpadding_sent)
                       ELSE t0
    IN [StateNew(transitions, num_states) EXCEPT
           !.bypass = TRUE, !.replace = TRUE,
           !.action = Uniform(R(TOR_CELL_SIZE), R(TOR_CELL_SIZE)),
           !.limit = Uniform(padding_count, padding_count)]

(* ---------------------------------------------------------------------- *)
(* Inputs                                                                  *)
(* ---------------------------------------------------------------------- *)
RECURSIVE SeqsUpTo(_, _)
SeqsUpTo(S, n) ==
    IF n = 0 THEN {<<>>}
    ELSE LET shorter == SeqsUpTo(S, n - 1)
         IN shorter \cup {Append(q, x) : q \in shorter, x \in S}

\* trace files: one u32 per line
Files == SeqsUpTo(0..MaxCell, MaxLines)

FrontArgs == [padding_budget : 1..MaxBudget, num_states : 0..MaxNumStates]
PipelinedArgs == [padding_budget : 1..MaxBudget, num_pipelines : 0..MaxPipelines,
                  num_states : 0..MaxNumStates]
\* packets_per_state: whole numbers of packets
WholeCounts == {R(n) : n \in 1..MaxPackets}
\* the same, and 2^-17, a positive f64 below the tolerance of the interval
\* search
PacketCounts == WholeCounts \cup {<<1, 2^17>>}

\* upload_ratio on a grid of 1/UDen; decay 1/2^d.  The relay parameters vary
\* with the spec's upload ratio 2.5, the upload ratio with the smallest relay.
RegulatorArgsOver(counts) ==
    {a \in [initial_rate : 1..MaxInitialRate,
            decay : {<<1, 2^d>> : d \in 1..MaxDecayLog2},
            threshold : 1..MaxThreshold,
            upload_ratio : {<<n, UDen>> : n \in 0..MaxUploadQ},
            packets_per_state : counts] :
        \/ REq(a.upload_ratio, <<5, 2>>)
        \/ /\ a.initial_rate = 1 /\ a.decay = <<1, 2>>
           /\ a.threshold = 1 /\ a.packets_per_state = R(1)}
\* the command lines of maybenot_regulator that are run to their end
RegulatorArgs == RegulatorArgsOver(WholeCounts)
\* the command lines on which the counting pass alone is followed
CountingPassArgs == RegulatorArgsOver(PacketCounts)
SurakavArgs == [file : Files]

\* trace files around the cutoff: CUTOFF_LENGTH lines of which all but the
\* middle one are bursts, followed by up to MaxTail lines
LongHead ==
    [i \in 1..CUTOFF_LENGTH |->
        IF 2 * i = CUTOFF_LENGTH THEN 0 ELSE 1 + (i % MaxCell)]
LongFiles == {LongHead \o t : t \in SeqsUpTo(0..1, MaxTail)}

(* ---------------------------------------------------------------------- *)
(* State of a run                                                          *)
(* ---------------------------------------------------------------------- *)
VARIABLES prog, pc, args, states, relay_states, client_states, loc, out

vars == <<prog, pc, args, states, relay_states, client_states, loc, out>>

NoLoc == [none |-> TRUE]

Init ==
    /\ prog \in {"front", "pipelined", "regulator", "surakav"}
    /\ args \in CASE prog = "front" -> FrontArgs
                  [] prog = "pipelined" -> PipelinedArgs
                  [] prog = "regulator" -> RegulatorArgs
                  [] prog = "surakav" -> SurakavArgs
    /\ pc = "main"
    /\ states = <<>>
    /\ relay_states = <<>>
    /\ client_states = <<>>
    /\ loc = NoLoc
    /\ out = <<>>

Printed(label, text) == [label |-> label, text |-> text]

(* ---------------------------------------------------------------------- *)
(* maybenot_surakav.rs                                                     *)
(* ---------------------------------------------------------------------- *)
\* parse_file, up to the loop
SurakavParseStart ==
    /\ prog = "surakav" /\ pc = "main"
    /\ LET rl == read_lines(args.file)
           lines == rl[1]
           num_bursts == rl[2]
           num_states == num_bursts + 2
       IN /\ relay_states' = <<surakav_generate_start_state(1, num_states),
                               surakav_generate_block_state(2, num_states)>>
          /\ client_states' = <<surakav_generate_start_state(1, num_states),
                                surakav_generate_block_state(2, num_states)>>
          /\ loc' = [lines |-> lines, num_states |-> num_states,
                     curr_idx |-> 2, next_idx |-> 3, relay_sending |-> FALSE,
                     lines_idx |-> 1, switches |-> <<>>]
    /\ pc' = "parse_loop"
    /\ UNCHANGED <<prog, args, states, out>>

\* the next_idx update at the end of one burst iteration
surakav_next_idx(next_idx, num_states) ==
    IF next_idx + 1 = num_states THEN num_states + 1 ELSE next_idx + 1

\* (mutant) a 0 line leaves the sending role alone
zero_line_sending_kept(relay_sending) == relay_sending

\* `relay_sending = !relay_sending` on a 0 line
zero_line_sending(relay_sending) == ~relay_sending

\* one iteration of `for lines_idx in 0..lines.len()`
SurakavLine ==
    /\ prog = "surakav" /\ pc = "parse_loop"
    /\ loc.lines_idx <= Len(loc.lines)
    /\ LET v == loc.lines[loc.lines_idx]
           burst == generate_burst_states(v, loc.curr_idx, loc.next_idx, loc.num_states)
           send_state == burst[1]
           recv_state == burst[2]
       IN IF v = 0
          THEN /\ loc' = [loc EXCEPT !.relay_sending = zero_line_sending(@),
                                     !.lines_idx = @ + 1,
                                     !.switches = Append(@, loc.lines_idx)]
               /\ UNCHANGED <<relay_states, client_states>>
          ELSE /\ IF loc.relay_sending
                  THEN /\ relay_states' = Append(relay_states, send_state)
                       /\ client_states' = Append(client_states, recv_state)
                  ELSE /\ relay_states' = Append(relay_states, recv_state)
                       /\ client_states' = Append(client_states, send_state)
               /\ loc' = [loc EXCEPT !.curr_idx = @ + 1,
                                     !.next_idx = surakav_next_idx(@, loc.num_states),
                                     !.relay_sending = ~loc.relay_sending,
                                     !.lines_idx = @ + 1]
    /\ UNCHANGED <<prog, pc, args, states, out>>

\* the tuple parse_file returns
parse_file_return(relay_machine, client_machine) ==
    <<serialize(relay_machine), serialize(client_machine)>>

\* main: let (client_machine, relay_machine) = parse_file(..); two println!
surakav_main_print(ret) ==
    LET client_machine == ret[1]
        relay_machine == ret[2]
    IN <<Printed("Client machine", client_machine),
         Printed("Relay machine", relay_machine)>>

\* parse_file after the loop, and main's output
SurakavFinish ==
    /\ prog = "surakav" /\ pc = "parse_loop"
    /\ loc.lines_idx > Len(loc.lines)
    /\ LET relay_machine == Machine(relay_states, "u64::MAX")
           client_machine == Machine(client_states, "u64::MAX")
       IN out' = surakav_main_print(parse_file_return(relay_machine, client_machine))
    /\ pc' = "done"
    /\ UNCHANGED <<prog, args, states, relay_states, client_states, loc>>

(* ---------------------------------------------------------------------- *)
(* maybenot_front.rs                                                       *)
(* ---------------------------------------------------------------------- *)
\* (mutant) the last padding state points one past StateEnd
front_last_next_index_past(num_states) == num_states + 3

\* next_index of the last padding state
front_last_next_index(num_states) == num_states + 2

\* (mutant) the loop runs up to and including num_states
front_loop_runs_inclusive(i, num_states) == i <= num_states

\* `for i in 1..num_states`: whether iteration i runs
front_loop_runs(i, num_states) == i < num_states

FrontStart ==
    /\ prog = "front" /\ pc = "main"
    /\ states' = <<front_generate_start_state(args.num_states + 1)>>
    /\ loc' = [area |-> <<1, args.num_states>>, i |-> 1,
               total_padding_frac |-> R(0)]
    /\ pc' = "front_loop"
    /\ UNCHANGED <<prog, args, relay_states, client_states, out>>

\* one iteration of `for i in 1..num_states`
FrontLoop ==
    /\ prog = "front" /\ pc = "front_loop"
    /\ front_loop_runs(loc.i, args.num_states)
    /\ LET padding_count == RMul(loc.area, R(args.padding_budget))
       IN states' = Append(states, generate_padding_state(loc.i, loc.i + 1,
                                       args.num_states + 1, padding_count))
    /\ loc' = [loc EXCEPT !.i = @ + 1,
                          !.total_padding_frac = RAdd(@, loc.area)]
    /\ UNCHANGED <<prog, pc, args, relay_states, client_states, out>>

\* the last padding state, the machine and main's println!
FrontLast ==
    /\ prog = "front" /\ pc = "front_loop"
    /\ ~front_loop_runs(loc.i, args.num_states)
    /\ LET padding_count == RMul(RSub(R(1), loc.total_padding_frac),
                                 R(args.padding_budget))
           all == Append(states, generate_padding_state(args.num_states,
                             front_last_next_index(args.num_states),
                             args.num_states + 1, padding_count))
       IN /\ states' = all
          /\ out' = <<Printed("Machine", serialize(Machine(all, "0")))>>
    /\ pc' = "done"
    /\ UNCHANGED <<prog, args, relay_states, client_states, loc>>

(* ---------------------------------------------------------------------- *)
(* pipelined_front.rs                                                      *)
(* ---------------------------------------------------------------------- *)
PipeStart ==
    /\ prog = "pipelined" /\ pc = "main"
    /\ LET area == <<1, args.num_states>>
           total_states == args.num_pipelines * args.num_states + 1
           step == RDiv(RMul(area, R(args.padding_budget)), R(args.num_pipelines))
       IN /\ states' = <<pipelined_generate_start_state(args.num_states,
                                       args.num_pipelines, total_states)>>
          /\ loc' = [total_states |-> total_states, step |-> step,
                     curr_count |-> step, idx |-> 1, pipeline |-> 0, inner |-> 1]
    /\ pc' = "pipe_loop"
    /\ UNCHANGED <<prog, args, relay_states, client_states, out>>

\* one iteration of the inner `for _ in 1..num_states`
PipeInner ==
    /\ prog = "pipelined" /\ pc = "pipe_loop"
    /\ loc.pipeline < args.num_pipelines
    /\ loc.inner < args.num_states
    /\ states' = Append(states, generate_padding_state(loc.idx, loc.idx + 1,
                                    loc.total_states, loc.curr_count))
    /\ loc' = [loc EXCEPT !.idx = @ + 1, !.inner = @ + 1]
    /\ UNCHANGED <<prog, pc, args, relay_states, client_states, out>>

\* next_index of the last padding state of a pipeline: StateEnd
pipelined_last_next_index(idx, total_states) == total_states + 1

\* the rest of one iteration of `for _ in 0..num_pipelines`
PipeLast ==
    /\ prog = "pipelined" /\ pc = "pipe_loop"
    /\ loc.pipeline < args.num_pipelines
    /\ loc.inner >= args.num_states
    /\ states' = Append(states, generate_padding_state(loc.idx,
                            pipelined_last_next_index(loc.idx, loc.total_states),
                            loc.total_states, loc.curr_count))
    /\ loc' = [loc EXCEPT !.idx = @ + 1, !.inner = 1, !.pipeline = @ + 1,
                          !.curr_count = RAdd(@, loc.step)]
    /\ UNCHANGED <<prog, pc, args, relay_states, client_states, out>>

PipeFinish ==
    /\ prog = "pipelined" /\ pc = "pipe_loop"
    /\ loc.pipeline >= args.num_pipelines
    /\ out' = <<Printed("Machine", serialize(Machine(states, "0")))>>
    /\ pc' = "done"
    /\ UNCHANGED <<prog, args, states, relay_states, client_states, loc>>

(* ---------------------------------------------------------------------- *)
(* maybenot_regulator.rs: generate_relay_machine                           *)
(* ---------------------------------------------------------------------- *)
RelayStart ==
    /\ prog = "regulator" /\ pc = "main"
    /\ loc' = [t1 |-> Fix(0), keep_going |-> TRUE, num_send_states |-> 0,
               num_states |-> 0, i |-> 0, search |-> NoLoc, rates |-> <<>>]
    /\ pc' = "count_pass"
    /\ UNCHANGED <<prog, args, states, relay_states, client_states, out>>

\* `while keep_going`: the call of calc_interval_width
CountCall ==
    /\ prog = "regulator" /\ pc = "count_pass"
    /\ loc.keep_going
    /\ loc' = [loc EXCEPT !.search =
                   calc_interval_width_init(loc.t1, args.packets_per_state)]
    /\ pc' = "count_search"
    /\ UNCHANGED <<prog, args, states, relay_states, client_states, out>>

\* one iteration of the while loop of calc_interval_width, in either pass
SearchStep ==
    /\ prog = "regulator" /\ pc \in {"count_search", "build_search"}
    /\ AboveTolerance(loc.search.curr_diff)
    /\ loc' = [loc EXCEPT !.search =
                   calc_interval_width_step(loc.search, args.packets_per_state,
                                            args.initial_rate, args.decay)]
    /\ UNCHANGED <<prog, pc, args, states, relay_states, client_states, out>>

\* `num_send_states += 1`
count_up(num_send_states) == num_send_states + 1

\* the rest of one iteration of `while keep_going`
CountIter ==
    /\ prog = "regulator" /\ pc = "count_search"
    /\ ~AboveTolerance(loc.search.curr_diff)
    /\ LET width == calc_interval_width_return(loc.search)
           iv == relay_interval(loc.t1, width, args.initial_rate, args.decay)
       IN loc' = [loc EXCEPT !.keep_going = ~iv[3], !.t1 = iv[1],
                             !.num_send_states = count_up(@), !.search = NoLoc]
    /\ pc' = "count_pass"
    /\ UNCHANGED <<prog, args, states, relay_states, client_states, out>>

\* START, BLOCK and the nine BOOTSTRAP states
RelaySetup ==
    /\ prog = "regulator" /\ pc = "count_pass"
    /\ ~loc.keep_going
    /\ LET num_states == loc.num_send_states + 11
       IN /\ states' = <<generate_relay_start_state(num_states),
                         generate_relay_block_state(num_states)>>
                       \o [b \in 1..9 |->
                             generate_relay_boot_state(b + 1, b + 2, num_states)]
          /\ loc' = [loc EXCEPT !.num_states = num_states, !.t1 = Fix(0), !.i = 0]
    /\ pc' = "build_pass"
    /\ UNCHANGED <<prog, args, relay_states, client_states, out>>

\* `for i in 0..num_send_states`: the call of calc_interval_width
BuildCall ==
    /\ prog = "regulator" /\ pc = "build_pass"
    /\ loc.i < loc.num_send_states
    /\ loc' = [loc EXCEPT !.search =
                   calc_interval_width_init(loc.t1, args.packets_per_state)]
    /\ pc' = "build_search"
    /\ UNCHANGED <<prog, args, states, relay_states, client_states, out>>

\* (mutant) the last SEND state advances like the others
relay_send_next_idx_on(i, num_states, stop) == i + 12

\* next_idx of SEND state i: `i + 12`, or StateEnd when the pass stops
relay_send_next_idx(i, num_states, stop) ==
    IF stop THEN num_states + 1 ELSE i + 12

\* the rest of one iteration of `for i in 0..num_send_states`; loc.rates
\* keeps the `rate` of every iteration (1.0 when the pass stops)
BuildIter ==
    /\ prog = "regulator" /\ pc = "build_search"
    /\ ~AboveTolerance(loc.search.curr_diff)
    /\ LET width == calc_interval_width_return(loc.search)
           iv == relay_interval(loc.t1, width, args.initial_rate, args.decay)
           curr_idx == loc.i + 11
           rate == IF iv[3] THEN Fix(TFRAC) ELSE iv[2]
           next_idx == relay_send_next_idx(loc.i, loc.num_states, iv[3])
       IN /\ states' = Append(states,
                 generate_relay_send_state(curr_idx, next_idx, loc.num_states,
                     args.packets_per_state, args.threshold, rate))
          /\ loc' = [loc EXCEPT !.t1 = iv[1], !.i = @ + 1, !.search = NoLoc,
                                !.rates = Append(@, rate)]
    /\ pc' = "build_pass"
    /\ UNCHANGED <<prog, args, relay_states, client_states, out>>

\* the machine, and main's first println!
RelayFinish ==
    /\ prog = "regulator" /\ pc = "build_pass"
    /\ loc.i >= loc.num_send_states
    /\ out' = <<Printed("Relay machine", serialize(Machine(states, "u64::MAX")))>>
    /\ pc' = "client"
    /\ UNCHANGED <<prog, args, states, relay_states, client_states, loc>>

(* ---------------------------------------------------------------------- *)
(* maybenot_regulator.rs: generate_client_machine                          *)
(* ---------------------------------------------------------------------- *)
\* (mutant) one state more: as many COUNTER states as the ratio rounded up
client_num_states_more(upload_ratio) == Trunc(upload_ratio) + 2

client_num_states(upload_ratio) == Trunc(upload_ratio) + 1

ClientStart ==
    /\ prog = "regulator" /\ pc = "client"
    /\ states' = <<>>
    /\ loc' = [num_states |-> client_num_states(args.upload_ratio),
               prob_last_trans |-> RSub(R(1), Fract(args.upload_ratio)),
               i |-> 1]
    /\ pc' = "client_loop"
    /\ UNCHANGED <<prog, args, relay_states, client_states, out>>

\* one iteration of `for i in 1..num_states`
ClientCount ==
    /\ prog = "regulator" /\ pc = "client_loop"
    /\ loc.i < loc.num_states
    /\ LET prob_trans == IF loc.i = loc.num_states - 1
                         THEN loc.prob_last_trans ELSE R(1)
       IN states' = Append(states, generate_client_count_state(loc.i - 1, loc.i,
                                       loc.num_states, prob_trans))
    /\ loc' = [loc EXCEPT !.i = @ + 1]
    /\ UNCHANGED <<prog, pc, args, relay_states, client_states, out>>

\* the SEND state, the machine and main's println!
ClientSend ==
    /\ prog = "regulator" /\ pc = "client_loop"
    /\ loc.i >= loc.num_states
    /\ LET all == Append(states, generate_client_send_state(loc.num_states))
       IN /\ states' = all
          /\ out' = Append(out, Printed("Client machine",
                                        serialize(Machine(all, "u64::MAX"))))
    /\ pc' = "done"
    /\ UNCHANGED <<prog, args, relay_states, client_states, loc>>

(* ---------------------------------------------------------------------- *)
(* Specification                                                           *)
(* ---------------------------------------------------------------------- *)
Next ==
    \/ SurakavParseStart \/ SurakavLine \/ SurakavFinish
    \/ FrontStart \/ FrontLoop \/ FrontLast
    \/ PipeStart \/ PipeInner \/ PipeLast \/ PipeFinish
    \/ RelayStart \/ CountCall \/ SearchStep \/ CountIter
    \/ RelaySetup \/ BuildCall \/ BuildIter \/ RelayFinish
    \/ ClientStart \/ ClientCount \/ ClientSend

Spec == Init /\ [][Next]_vars

(* ---------------------------------------------------------------------- *)
(* read_lines on its own, on trace files around the cutoff                 *)
(* ---------------------------------------------------------------------- *)
InitReadLines ==
    /\ prog = "read_lines"
    /\ args \in [file : LongFiles]
    /\ pc = "main"
    /\ states = <<>>
    /\ relay_states = <<>>
    /\ client_states = <<>>
    /\ loc = NoLoc
    /\ out = <<>>

\* main's call `read_lines(burst_file)`, the result kept in loc
ReadLinesCall ==
    /\ prog = "read_lines" /\ pc = "main"
    /\ LET rl == read_lines(args.file)
       IN loc' = [lines |-> rl[1], count |-> rl[2]]
    /\ pc' = "done"
    /\ UNCHANGED <<prog, args, states, relay_states, client_states, out>>

NextReadLines == ReadLinesCall

SpecReadLines == InitReadLines /\ [][NextReadLines]_vars

(* ---------------------------------------------------------------------- *)
(* The counting pass of generate_relay_machine on its own                  *)
(* ---------------------------------------------------------------------- *)
\* the while loop of calc_interval_width from the locals s on, for 2^k
\* iterations at most; a loop that has ended stays where it is
RECURSIVE calc_interval_width_iters(_, _, _, _, _)
calc_interval_width_iters(s, count, rate, decay, k) ==
    IF ~AboveTolerance(s.curr_diff) THEN s
    ELSE IF k = 0 THEN calc_interval_width_step(s, count, rate, decay)
    ELSE LET h == calc_interval_width_iters(s, count, rate, decay, k - 1)
         IN IF AboveTolerance(h.curr_diff)
            THEN calc_interval_width_iters(h, count, rate, decay, k - 1)
            ELSE h

\* the while loop of calc_interval_width run to its end, 2^k iterations
\* first and twice as many after each run that has not ended it
RECURSIVE calc_interval_width_loop(_, _, _, _, _)
calc_interval_width_loop(s, count, rate, decay, k) ==
    LET h == calc_interval_width_iters(s, count, rate, decay, k)
    IN IF AboveTolerance(h.curr_diff)
       THEN calc_interval_width_loop(h, count, rate, decay, k + 1)
       ELSE h

\* calc_interval_width(a, count, rate, decay)
calc_interval_width(a, count, rate, decay) ==
    calc_interval_width_return(
        calc_interval_width_loop(calc_interval_width_init(a, count),
                                 count, rate, decay, 0))

\* the locals of generate_relay_machine before `while keep_going`
counting_pass_entry == [t1 |-> Fix(0), keep_going |-> TRUE, num_send_states |-> 0]

\* one iteration of `while keep_going`, from the locals s
counting_pass_iter(a, s) ==
    LET width == calc_interval_width(s.t1, a.packets_per_state,
                                     a.initial_rate, a.decay)
        iv == relay_interval(s.t1, width, a.initial_rate, a.decay)
    IN [t1 |-> iv[1], keep_going |-> ~iv[3],
        num_send_states |-> count_up(s.num_send_states)]

\* the locals at the head of `while keep_going`, one entry per test of the
\* loop condition, for the first n iterations at most: seen ends with the
\* locals of the latest test
RECURSIVE counting_pass_heads(_, _, _)
counting_pass_heads(a, seen, n) ==
    LET s == seen[Len(seen)]
    IN IF n = 0 \/ ~s.keep_going THEN seen
       ELSE counting_pass_heads(a, Append(seen, counting_pass_iter(a, s)), n - 1)

InitCountingPass ==
    /\ prog = "counting_pass"
    /\ args \in CountingPassArgs
    /\ pc = "main"
    /\ states = <<>>
    /\ relay_states = <<>>
    /\ client_states = <<>>
    /\ loc = NoLoc
    /\ out = <<>>

\* the first MaxSendStates iterations of the counting pass, the locals of
\* every loop test kept in loc
CountingPassCall ==
    /\ prog = "counting_pass" /\ pc = "main"
    /\ loc' = [heads |-> counting_pass_heads(args, <<counting_pass_entry>>,
                                             MaxSendStates)]
    /\ pc' = "done"
    /\ UNCHANGED <<prog, args, states, relay_states, client_states, out>>

NextCountingPass == CountingPassCall

SpecCountingPass == InitCountingPass /\ [][NextCountingPass]_vars

(* ---------------------------------------------------------------------- *)
(* Reading the generated machines                                          *)
(* ---------------------------------------------------------------------- *)
Done == pc = "done"

\* the state lists of the machines printed so far
PrintedStates == {out[k].text.body.states : k \in 1..Len(out)}

\* the state list printed under a label
StatesOf(label) ==
    LET k == CHOOSE j \in 1..Len(out) : out[j].label = label
    IN out[k].text.body.states

\* state lists are 1-based here: the state of index i is sts[i + 1]
At(sts, i) == sts[i + 1]

EventsOf(st) == DOMAIN st.transitions
TargetsOf(st, e) == DOMAIN st.transitions[e]
AllTargets(sts) ==
    UNION {UNION {TargetsOf(sts[k], e) : e \in EventsOf(sts[k])} : k \in 1..Len(sts)}

RECURSIVE ProbSum(_, _)
ProbSum(m, T) ==
    IF T = {} THEN R(0)
    ELSE LET t == CHOOSE x \in T : TRUE
         IN RAdd(m[t], ProbSum(m, T \ {t}))

\* goes to exactly one target, with probability 1
GoesTo(st, e, t) ==
    /\ e \in EventsOf(st)
    /\ TargetsOf(st, e) = {t}
    /\ REq(st.transitions[e][t], R(1))

IsStart(st) ==
    /\ EventsOf(st) \subseteq {"NonPaddingSent", "NonPaddingRecv"}
    /\ EventsOf(st) # {}
IsBlock(st) == st.action_is_block /\ EventsOf(st) = {"BlockingBegin"}
IsCounter(st) ==
    /\ st.action_is_block
    /\ {"PaddingRecv", "NonPaddingRecv"} \subseteq EventsOf(st)
IsClientSend(st) == ~st.action_is_block /\ EventsOf(st) = {"PaddingSent"}
IsPadding(st, i) ==
    /\ EventsOf(st) = {"PaddingSent", "LimitReached"}
    /\ GoesTo(st, "PaddingSent", i)
IsTransmit(st) == ~st.action_is_block /\ "PaddingSent" \in EventsOf(st)

HasBlockAtOne(sts) == Len(sts) >= 2 /\ IsBlock(At(sts, 1))
HasNoBlock(sts) == \A k \in 1..Len(sts) : ~IsBlock(sts[k])

(* ---------------------------------------------------------------------- *)
(* C1                                                                      *)
(* ---------------------------------------------------------------------- *)
\* C1, as stated: in every generated machine every transition target t
\* satisfies 0 <= t <= states.len().
C1_TargetsWithinLen ==
    \A sts \in PrintedStates : \A t \in AllTargets(sts) : t >= 0 /\ t <= Len(sts)

\* C1, amended: every transition target t satisfies 0 <= t <= states.len() + 1;
\* states.len() + 1 is the index the generators write for StateEnd.
C1_TargetsWithinEnd ==
    \A sts \in PrintedStates : \A t \in AllTargets(sts) : t >= 0 /\ t <= Len(sts) + 1

\* a FRONT machine whose last padding state goes to states.len() + 1
C1_Witness ==
    /\ prog = "front" /\ Done /\ args.num_states = 2
    /\ GoesTo(At(states, 2), "LimitReached", Len(states) + 1)

(* ---------------------------------------------------------------------- *)
(* C2                                                                      *)
(* ---------------------------------------------------------------------- *)
ProbabilitiesOK(st, e) ==
    /\ \A t \in TargetsOf(st, e) :
          RLeq(R(0), st.transitions[e][t]) /\ RLeq(st.transitions[e][t], R(1))
    /\ RLeq(ProbSum(st.transitions[e], TargetsOf(st, e)), R(1))

\* C2: in every generated machine, for every state and every event of its
\* table, the probabilities are each in [0, 1] and sum to at most 1; also for
\* the NonPaddingSent entry 2/(threshold*rate) of the RegulaTor relay SEND
\* states, for any threshold > 0.
C2_ProbabilitiesAtMostOne ==
    \A sts \in PrintedStates : \A k \in 1..Len(sts) :
        \A e \in EventsOf(sts[k]) : ProbabilitiesOK(sts[k], e)

(* ---------------------------------------------------------------------- *)
(* C3                                                                      *)
(* ---------------------------------------------------------------------- *)
ClientDone == prog = "regulator" /\ Done
UploadIs(x) == REq(args.upload_ratio, x)

\* sts is n COUNTER states followed by the single SEND state
CountersThenSend(sts, n) ==
    /\ Len(sts) = n + 1
    /\ \A k \in 1..n : IsCounter(sts[k])
    /\ IsClientSend(sts[n + 1])

\* C3, as stated: for upload_ratio = 2.5 the client machine is exactly 3
\* COUNTER states followed by the single SEND state.
C3_ThreeCounters ==
    (ClientDone /\ UploadIs(<<5, 2>>)) => CountersThenSend(StatesOf("Client machine"), 3)

\* C3, amended: for upload_ratio = 2.5 the client machine is exactly 2 COUNTER
\* states followed by the single SEND state (3 states in all).
C3_TwoCounters ==
    (ClientDone /\ UploadIs(<<5, 2>>)) => CountersThenSend(StatesOf("Client machine"), 2)

C3_Witness ==
    /\ ClientDone /\ UploadIs(<<5, 2>>)
    /\ Len(StatesOf("Client machine")) = 3
    /\ IsCounter(At(StatesOf("Client machine"), 1))

(* ---------------------------------------------------------------------- *)
(* C4                                                                      *)
(* ---------------------------------------------------------------------- *)
SurakavDone == prog = "surakav" /\ Done
SpecTrace == <<3, 2, 0, 4, 0>>

\* who sends the burst of state index i (i >= 2): the machine whose state i
\* is the transmit state
Sender(i) == IF IsTransmit(At(client_states, i)) THEN "client" ELSE "relay"
BurstIndices == 2..(Len(client_states) - 1)
\* the bursts sent by the other party than the burst before
Alternations == {i \in BurstIndices : i > 2 /\ Sender(i) # Sender(i - 1)}

\* C4, as stated: for the trace 3, 2, 0, 4, 0 the loop records exactly one
\* direction switch, at the first 0 (line 3), and each of the three bursts is
\* sent by the opposite party from the burst before it (two alternations).
C4_OneSwitchTwoAlternations ==
    (SurakavDone /\ args.file = SpecTrace) =>
        /\ loc.switches = <<3>>
        /\ Cardinality(Alternations) = 2

\* C4, amended: for the trace 3, 2, 0, 4, 0 the loop switches direction at
\* both 0 lines (lines 3 and 5); of the three bursts the first is sent by the
\* client and the second and third by the relay, so the sending role changes
\* exactly once between consecutive bursts.
C4_TwoSwitchesOneAlternation ==
    (SurakavDone /\ args.file = SpecTrace) =>
        /\ loc.switches = <<3, 5>>
        /\ BurstIndices = 2..4
        /\ Sender(2) = "client" /\ Sender(3) = "relay" /\ Sender(4) = "relay"
        /\ Alternations = {3}

C4_Witness ==
    /\ SurakavDone /\ args.file = SpecTrace
    /\ Len(client_states) = 5 /\ Len(loc.switches) = 2

(* ---------------------------------------------------------------------- *)
(* C5                                                                      *)
(* ---------------------------------------------------------------------- *)
\* C5: the machine printed after "Client machine:" is the serialization of
\* the machine assembled from client_states, and the machine printed after
\* "Relay machine:" is the one assembled from relay_states.
C5_LabelsMatchMachines ==
    SurakavDone =>
        /\ Len(out) = 2
        /\ out[1].label = "Client machine"
        /\ out[1].text = serialize(Machine(client_states, "u64::MAX"))
        /\ out[2].label = "Relay machine"
        /\ out[2].text = serialize(Machine(relay_states, "u64::MAX"))

(* ---------------------------------------------------------------------- *)
(* C6                                                                      *)
(* ---------------------------------------------------------------------- *)
RegulatorDone == prog = "regulator" /\ Done
FrontDone == prog \in {"front", "pipelined"} /\ Done

\* C6, as stated: a BLOCK state (index 1, action_is_block, only transition
\* on BlockingBegin) is present only in relay machines: both relay machines
\* have one at index 1; no client machine and no FRONT or Pipelined FRONT
\* machine contains one.
C6_BlockOnlyInRelay ==
    /\ SurakavDone => HasBlockAtOne(relay_states) /\ HasNoBlock(client_states)
    /\ RegulatorDone => /\ HasBlockAtOne(StatesOf("Relay machine"))
                        /\ HasNoBlock(StatesOf("Client machine"))
    /\ FrontDone => HasNoBlock(states)

\* C6, amended: the RegulaTor relay machine and both Surakav machines (relay
\* and client) have a BLOCK state at index 1, and it is their only one; the
\* RegulaTor client machine and the FRONT and Pipelined FRONT machines
\* contain none.
C6_BlockInRelayAndSurakav ==
    /\ SurakavDone =>
          /\ HasBlockAtOne(relay_states) /\ HasBlockAtOne(client_states)
          /\ \A k \in 1..Len(client_states) :
                (IsBlock(client_states[k]) \/ IsBlock(relay_states[k])) => k = 2
    /\ RegulatorDone =>
          /\ HasBlockAtOne(StatesOf("Relay machine"))
          /\ \A k \in 1..Len(StatesOf("Relay machine")) :
                IsBlock(StatesOf("Relay machine")[k]) => k = 2
          /\ HasNoBlock(StatesOf("Client machine"))
    /\ FrontDone => HasNoBlock(states)

C6_Witness ==
    /\ SurakavDone /\ Len(client_states) >= 3
    /\ IsBlock(At(client_states, 1)) /\ IsBlock(At(relay_states, 1))

(* ---------------------------------------------------------------------- *)
(* C7                                                                      *)
(* ---------------------------------------------------------------------- *)
OnlyNonPaddingEvents(st) ==
    EventsOf(st) \subseteq {"NonPaddingSent", "NonPaddingRecv"}

\* C7, as stated: in every generated machine (all six) the state at index 0
\* has entries only for NonPaddingSent and/or NonPaddingRecv.
C7_IndexZeroIsStart ==
    \A sts \in PrintedStates : OnlyNonPaddingEvents(At(sts, 0))

\* C7, amended: in the FRONT, Pipelined FRONT, RegulaTor relay and both
\* Surakav machines the state at index 0 has entries only for NonPaddingSent
\* and/or NonPaddingRecv.  The RegulaTor client machine has no START state:
\* its state 0 is the first COUNTER state (entries on PaddingRecv and
\* NonPaddingRecv, and on LimitReached exactly when its forward probability
\* is below 1), or, for upload_ratio < 1, the SEND state (PaddingSent only).
C7_IndexZeroIsStartButClient ==
    /\ (FrontDone \/ SurakavDone) =>
          \A sts \in PrintedStates : OnlyNonPaddingEvents(At(sts, 0))
    /\ (prog = "regulator" /\ Len(out) >= 1) =>
          /\ out[1].label = "Relay machine"
          /\ OnlyNonPaddingEvents(At(StatesOf("Relay machine"), 0))
    /\ RegulatorDone =>
          LET st == At(StatesOf("Client machine"), 0)
          IN IF RLess(args.upload_ratio, R(1))
             THEN EventsOf(st) = {"PaddingSent"}
             ELSE /\ {"PaddingRecv", "NonPaddingRecv"} \subseteq EventsOf(st)
                  /\ EventsOf(st) \subseteq
                        {"PaddingRecv", "NonPaddingRecv", "LimitReached"}
                  /\ "LimitReached" \in EventsOf(st) <=>
                        \E t \in TargetsOf(st, "PaddingRecv") :
                            RLess(st.transitions["PaddingRecv"][t], R(1))

C7_Witness ==
    /\ RegulatorDone /\ UploadIs(<<5, 2>>)
    /\ IsCounter(At(StatesOf("Client machine"), 0))
    /\ IsStart(At(StatesOf("Relay machine"), 0))

(* ---------------------------------------------------------------------- *)
(* C8                                                                      *)
(* ---------------------------------------------------------------------- *)
\* C8: for padding budget > 0 and num_states >= 1 the FRONT generate_machine
\* builds exactly num_states + 1 states: the START state at index 0 followed
\* by num_states padding states at indices 1..num_states.
C8_FrontStateCount ==
    (prog = "front" /\ Done /\ args.padding_budget > 0 /\ args.num_states >= 1) =>
        /\ Len(states) = args.num_states + 1
        /\ IsStart(At(states, 0))
        /\ \A i \in 1..args.num_states : IsPadding(At(states, i), i)
        /\ StatesOf("Machine") = states

C8_Witness ==
    /\ prog = "front" /\ Done /\ args.num_states = 3
    /\ Len(states) = 4 /\ IsPadding(At(states, 3), 3)

(* ---------------------------------------------------------------------- *)
(* C9                                                                      *)
(* ---------------------------------------------------------------------- *)
NonZero(lines, n) == Cardinality({k \in 1..n : lines[k] # 0})
InParseLoop == prog = "surakav" /\ pc \in {"parse_loop", "done"}

\* C9: the number of burst-state pairs equals the number of non-zero lines
\* retained by read_lines: after every line processed so far both lists hold 2
\* states plus one per non-zero line (a 0 line adds none), at the end both
\* hold 2 + (number of non-zero lines) states, which is the num_states given
\* to every State::new; the trace 3, 2, 0, 4, 0 gives exactly 3 pairs.
C9_PairsEqualNonZeroLines ==
    InParseLoop =>
        /\ Len(relay_states) = 2 + NonZero(loc.lines, loc.lines_idx - 1)
        /\ Len(client_states) = Len(relay_states)
        /\ \A k \in 1..Len(relay_states) :
              /\ relay_states[k].num_states = 2 + NonZero(loc.lines, Len(loc.lines))
              /\ client_states[k].num_states = 2 + NonZero(loc.lines, Len(loc.lines))
        /\ Done => /\ loc.lines = read_lines(args.file)[1]
                   /\ Len(relay_states) = 2 + NonZero(loc.lines, Len(loc.lines))
                   /\ Len(relay_states) = loc.num_states
                   /\ args.file = SpecTrace => Len(relay_states) - 2 = 3

C9_Witness ==
    /\ SurakavDone /\ args.file = SpecTrace
    /\ Len(relay_states) = 5 /\ At(relay_states, 4).num_states = 5

(* ---------------------------------------------------------------------- *)
(* C10                                                                     *)
(* ---------------------------------------------------------------------- *)
Prob(st, e, t) == st.transitions[e][t]
RecvEvents == {"PaddingRecv", "NonPaddingRecv"}

\* C10: in the RegulaTor client machine every COUNTER state except the last
\* advances to the next index on PaddingRecv and on NonPaddingRecv with
\* probability exactly 1 and has no self-loop; the last COUNTER state
\* advances to the SEND state with probability 1 - fract(upload_ratio) and
\* self-loops with the complementary probability when that is non-zero, the
\* two summing to 1; for upload_ratio = 2.5 the forward probability is 0.5.
C10_CounterProbabilities ==
    ClientDone =>
        LET sts == StatesOf("Client machine")
            last == Len(sts) - 2
            fract == Fract(args.upload_ratio)
        IN \A i \in 0..last : \A e \in RecvEvents :
              LET st == At(sts, i)
              IN IF i < last
                 THEN GoesTo(st, e, i + 1)
                 ELSE /\ IsClientSend(At(sts, i + 1))
                      /\ REq(Prob(st, e, i + 1), RSub(R(1), fract))
                      /\ IF REq(fract, R(0))
                         THEN TargetsOf(st, e) = {i + 1}
                         ELSE /\ TargetsOf(st, e) = {i, i + 1}
                              /\ REq(Prob(st, e, i), fract)
                      /\ REq(ProbSum(st.transitions[e], TargetsOf(st, e)), R(1))
                      /\ UploadIs(<<5, 2>>) => REq(Prob(st, e, i + 1), <<1, 2>>)

C10_Witness ==
    /\ ClientDone /\ UploadIs(<<5, 2>>)
    /\ REq(Prob(At(StatesOf("Client machine"), 1), "PaddingRecv", 2), <<1, 2>>)
    /\ REq(Prob(At(StatesOf("Client machine"), 1), "PaddingRecv", 1), <<1, 2>>)
    /\ GoesTo(At(StatesOf("Client machine"), 0), "NonPaddingRecv", 1)

(* ---------------------------------------------------------------------- *)
(* C11                                                                     *)
(* ---------------------------------------------------------------------- *)
PipelinedDone == prog = "pipelined" /\ Done
PipelineHeads(num_states, num_pipelines) ==
    {1 + p * num_states : p \in 0..(num_pipelines - 1)}

\* C11: in Pipelined FRONT with num_pipelines >= 1 and num_states >= 1 the
\* START state's NonPaddingSent and NonPaddingRecv tables each have exactly
\* num_pipelines targets, the first state of each pipeline (indices
\* 1 + p * num_states, p = 0..num_pipelines - 1), each with probability
\* 1 / num_pipelines; each table sums to 1 and no non-head state is a
\* START target.
C11_StartFansOutToHeads ==
    (PipelinedDone /\ args.num_pipelines >= 1 /\ args.num_states >= 1) =>
        LET start == At(StatesOf("Machine"), 0)
            heads == PipelineHeads(args.num_states, args.num_pipelines)
        IN /\ EventsOf(start) = {"NonPaddingSent", "NonPaddingRecv"}
           /\ \A e \in EventsOf(start) :
                 /\ TargetsOf(start, e) = heads
                 /\ Cardinality(TargetsOf(start, e)) = args.num_pipelines
                 /\ \A t \in heads :
                       /\ REq(Prob(start, e, t), <<1, args.num_pipelines>>)
                       /\ IsPadding(At(StatesOf("Machine"), t), t)
                 /\ REq(ProbSum(start.transitions[e], heads), R(1))

C11_Witness ==
    /\ PipelinedDone /\ args.num_pipelines = 3 /\ args.num_states = 2
    /\ TargetsOf(At(states, 0), "NonPaddingSent") = {1, 3, 5}
    /\ REq(Prob(At(states, 0), "NonPaddingRecv", 5), <<1, 3>>)

(* ---------------------------------------------------------------------- *)
(* C12                                                                     *)
(* ---------------------------------------------------------------------- *)
ReadLinesDone == prog = "read_lines" /\ Done

\* C12: read_lines stops reading once CUTOFF_LENGTH non-zero values have
\* been read: the returned count is at most CUTOFF_LENGTH, it equals the
\* number of non-zero entries of the returned list, the list is the file up
\* to some line, and no line (zero or non-zero) that follows the
\* CUTOFF_LENGTH-th non-zero line is in it; the list is shorter than the
\* file only when the count has reached CUTOFF_LENGTH.
C12_ReadStopsAtCutoff ==
    ReadLinesDone =>
        LET n == Len(loc.lines)
        IN /\ loc.count <= CUTOFF_LENGTH
           /\ loc.count = NonZero(loc.lines, n)
           /\ n <= Len(args.file)
           /\ \A i \in 1..n : loc.lines[i] = args.file[i]
           /\ n > 0 => NonZero(args.file, n - 1) < CUTOFF_LENGTH
           /\ n < Len(args.file) => loc.count = CUTOFF_LENGTH

C12_Witness ==
    /\ ReadLinesDone /\ loc.count = CUTOFF_LENGTH
    /\ Len(loc.lines) = CUTOFF_LENGTH + 2
    /\ Len(args.file) = CUTOFF_LENGTH + 5
    /\ loc.lines[CUTOFF_LENGTH + 1] = 0

(* ---------------------------------------------------------------------- *)
(* C13                                                                     *)
(* ---------------------------------------------------------------------- *)
CountingPassDone == prog = "counting_pass" /\ Done

\* C13: for any decay in (0,1), initial rate > 0 and packets_per_state > 0
\* the counting pass of generate_relay_machine terminates: every call of
\* calc_interval_width returns and after finitely many iterations the stop
\* condition (infinite width or midpoint rate < 1) holds.  The loop reads
\* nothing but t1 and the arguments, so a pass that terminates never ends an
\* iteration with keep_going still set and t1 where it was.
C13_CountingPassTerminates ==
    CountingPassDone =>
        \A i \in 1..(Len(loc.heads) - 1) :
            \/ ~loc.heads[i + 1].keep_going
            \/ loc.heads[i + 1].t1 # loc.heads[i].t1

(* ---------------------------------------------------------------------- *)
(* C14                                                                     *)
(* ---------------------------------------------------------------------- *)
\* generate_relay_machine has returned, its locals are still in loc
RelayBuilt == prog = "regulator" /\ pc = "client"
InBuildPass == prog = "regulator" /\ pc \in {"build_pass", "build_search"}
IsRelaySend(st, i) ==
    /\ ~st.action_is_block
    /\ GoesTo(st, "PaddingSent", i)
    /\ "LimitReached" \in EventsOf(st)

\* C14: the build pass of generate_relay_machine materializes exactly the
\* num_send_states SEND states counted by the pre-pass, at indices
\* 11 .. 11 + num_send_states - 1: every SEND state but the last has
\* LimitReached -> own index + 1 with probability 1 and exactly the last one
\* has LimitReached -> End (num_states + 1) with probability 1, i.e. the
\* stop condition holds in the build pass for the last SEND state and for no
\* earlier one.
C14_BuildPassMatchesCount ==
    /\ InBuildPass =>
          /\ Len(states) = 11 + loc.i
          /\ loc.i <= loc.num_send_states
          /\ \A i \in 11..(Len(states) - 1) :
                GoesTo(At(states, i), "LimitReached", loc.num_states + 1)
                    <=> i = 10 + loc.num_send_states
    /\ RelayBuilt =>
          LET n == loc.num_send_states
              last == 10 + n
          IN /\ n >= 1 /\ n < MaxSendStates
             /\ loc.num_states = n + 11
             /\ Len(states) = 11 + n
             /\ StatesOf("Relay machine") = states
             /\ \A i \in 11..last : IsRelaySend(At(states, i), i)
             /\ \A i \in 11..(last - 1) :
                   GoesTo(At(states, i), "LimitReached", i + 1)
             /\ GoesTo(At(states, last), "LimitReached", loc.num_states + 1)

C14_Witness ==
    /\ RelayBuilt /\ loc.num_send_states = 5
    /\ GoesTo(At(states, 14), "LimitReached", 15)
    /\ GoesTo(At(states, 15), "LimitReached", 17)

(* ---------------------------------------------------------------------- *)
(* C15                                                                     *)
(* ---------------------------------------------------------------------- *)
BothMachines == {relay_states, client_states}

\* C15: for every Surakav trace with N >= 1 non-zero bursts (N = 1
\* included), in both machines each burst state at index i < N + 1 has
\* LimitReached -> i + 1 and the last burst state (index N + 1) has
\* LimitReached -> End, the value num_states + 1 for every N; no burst
\* state's LimitReached target is the index num_states.
C15_BurstLimitReachedTargets ==
    (SurakavDone /\ loc.num_states >= 3) =>
        LET N == loc.num_states - 2
        IN \A sts \in BothMachines :
              /\ Len(sts) = N + 2
              /\ \A i \in 2..N : GoesTo(At(sts, i), "LimitReached", i + 1)
              /\ GoesTo(At(sts, N + 1), "LimitReached", loc.num_states + 1)
              /\ \A i \in 2..(N + 1) :
                    loc.num_states \notin TargetsOf(At(sts, i), "LimitReached")

(* ---------------------------------------------------------------------- *)
(* C16                                                                     *)
(* ---------------------------------------------------------------------- *)
\* 2 / (threshold * rate) for the f64 rate of a build iteration
SurgeReset(threshold, rate) ==
    RDiv(R(2), RMul(R(threshold), <<rate.v, TFRAC>>))
ResetsToSendZero(st, threshold, rate) ==
    /\ "NonPaddingSent" \in EventsOf(st)
    /\ TargetsOf(st, "NonPaddingSent") = {11}
    /\ Prob(st, "NonPaddingSent", 11) = SurgeReset(threshold, rate)

\* C16, as stated: every SEND state of the RegulaTor relay machine, SEND_0
\* (index 11, the first state after the bootstrap states 2..10) included,
\* has a NonPaddingSent transition to SEND_0 with probability
\* 2 / (threshold * rate) for that state's rate.
C16_EverySendResets ==
    RelayBuilt =>
        \A i \in 11..(Len(states) - 1) :
            ResetsToSendZero(At(states, i), args.threshold, loc.rates[i - 10])

\* C16, amended: every SEND state after SEND_0 (index > 11) has a
\* NonPaddingSent transition to SEND_0 (index 11) with the value
\* 2 / (threshold * rate), rate being the midpoint rate of the state's
\* interval, or 1.0 for the last SEND state; SEND_0 itself has no
\* NonPaddingSent transition, like no state before the bootstrap region ends
\* resets to SEND_0.
C16_SendAfterFirstResets ==
    RelayBuilt =>
        /\ Len(loc.rates) = loc.num_send_states
        /\ loc.rates[loc.num_send_states] = Fix(TFRAC)
        /\ \A i \in 12..(Len(states) - 1) :
              ResetsToSendZero(At(states, i), args.threshold, loc.rates[i - 10])
        /\ "NonPaddingSent" \notin EventsOf(At(states, 11))
        /\ \A i \in 0..10 :
              "NonPaddingSent" \in EventsOf(At(states, i)) =>
                  11 \notin TargetsOf(At(states, i), "NonPaddingSent") \/ i = 10

C16_Witness ==
    /\ RelayBuilt /\ loc.num_send_states = 5 /\ args.threshold = 2
    /\ ResetsToSendZero(At(states, 12), 2, loc.rates[2])
    /\ loc.rates[2].v > TFRAC
    /\ EventsOf(At(states, 11)) = {"PaddingSent", "LimitReached"}

(* ---------------------------------------------------------------------- *)
(* C17                                                                     *)
(* ---------------------------------------------------------------------- *)
\* FRONT is one pipeline
NumPipelines == IF prog = "front" THEN 1 ELSE args.num_pipelines
\* the End index as the generators write it: State::new's num_states + 1
EndOf(sts) == At(sts, 0).num_states + 1
\* padding state i is the last one of its pipeline
LastOfPipeline(i) ==
    IF args.num_states = 0 THEN TRUE ELSE i % args.num_states = 0

\* every padding state self-loops on PaddingSent with probability 1; on
\* LimitReached it goes with probability 1 to the next padding state of its
\* pipeline, the last of each pipeline to End, which is one value for all
\* pipelines and the index of no state
PaddingChain ==
    \A i \in 1..(Len(states) - 1) :
        /\ IsPadding(At(states, i), i)
        /\ IF LastOfPipeline(i)
           THEN /\ GoesTo(At(states, i), "LimitReached", EndOf(states))
                /\ EndOf(states) \notin 0..(Len(states) - 1)
           ELSE GoesTo(At(states, i), "LimitReached", i + 1)

\* C17, as stated: in FRONT and in Pipelined FRONT every padding state
\* self-loops on PaddingSent with probability 1 and on LimitReached goes
\* with probability 1 to the next padding state of the same pipeline, except
\* the last padding state of each pipeline, which goes to End; no
\* LimitReached transition leads from the last state of one pipeline into
\* the first state of the next, and all last states share one End target.
C17_PaddingChainAlways == FrontDone => PaddingChain

(* ---------------------------------------------------------------------- *)
(* C18                                                                     *)
(* ---------------------------------------------------------------------- *)
IsBurst(x) == x # 0
\* the cell counts of the bursts, in trace order
Bursts(lines) == SelectSeq(lines, IsBurst)
IsBurstTransmit(st, i) ==
    /\ ~st.action_is_block
    /\ EventsOf(st) = {"PaddingSent", "LimitReached"}
    /\ GoesTo(st, "PaddingSent", i)
IsBurstReceive(st, i) ==
    /\ st.action_is_block
    /\ EventsOf(st) = {"PaddingRecv", "NonPaddingRecv", "LimitReached"}
    /\ GoesTo(st, "PaddingRecv", i)
    /\ GoesTo(st, "NonPaddingRecv", i)

\* C18: while and after parse_file processes a trace, the relay and client
\* state lists have equal length, and at every burst index i >= 2 exactly one
\* of relay_states[i], client_states[i] is a transmit state (PaddingSent
\* self-loop, not blocking) and the other is a receive state (blocking,
\* self-loops on PaddingRecv and NonPaddingRecv); the two states of a pair
\* have the same limit, the burst's cell count, and the same LimitReached
\* target.
C18_BurstPairs ==
    InParseLoop =>
        /\ Len(relay_states) = Len(client_states)
        /\ \A i \in 2..(Len(relay_states) - 1) :
              LET r == At(relay_states, i)
                  c == At(client_states, i)
                  cells == Bursts(loc.lines)[i - 1]
              IN /\ \/ IsBurstTransmit(r, i) /\ IsBurstReceive(c, i)
                    \/ IsBurstTransmit(c, i) /\ IsBurstReceive(r, i)
                 /\ ~(IsBurstTransmit(r, i) /\ IsBurstTransmit(c, i))
                 /\ r.limit = Uniform(R(cells), R(cells))
                 /\ c.limit = r.limit
                 /\ \E t \in 0..(loc.num_states + 1) :
                       /\ GoesTo(r, "LimitReached", t)
                       /\ GoesTo(c, "LimitReached", t)

C18_Witness ==
    /\ SurakavDone /\ args.file = SpecTrace
    /\ IsBurstTransmit(At(client_states, 2), 2)
    /\ IsBurstReceive(At(relay_states, 2), 2)
    /\ IsBurstTransmit(At(relay_states, 4), 4)
    /\ At(relay_states, 4).limit = Uniform(R(4), R(4))
    /\ At(client_states, 4).limit = Uniform(R(4), R(4))

====
